---- MODULE Spec2Model ----
(***************************************************************************)
(* The SystemCtl class of systemctl/__init__.py: a handle on one systemd   *)
(* service that shells out to `systemctl` and caches what it parsed from   *)
(* the status text in a five-key result dictionary.                        *)
(*                                                                         *)
(* Text is modelled structurally.  A captured stdout is a sequence of      *)
(* lines, a line is a record naming the prefix the regular expressions     *)
(* anchor on (k), the rest of the line (v) and the digits that follow      *)
(* "Main PID:" (d).  A captured stderr is a sequence of words, so that     *)
(* `DMsg.NOT_FOUND in stderr` is a genuine substring test.  An optional    *)
(* Python value is a sequence of length <= 1: None is << >>.               *)
(*                                                                         *)
(* The operations are the constructor, running(), service_name() and the   *)
(* five subcommands; the accessors are operators on the state.  timeout()  *)
(* only stores the value handed to subprocess.run and is left out, so      *)
(* timeoutv keeps the value __init__ gives it.                             *)
(***************************************************************************)
EXTENDS Integers, Sequences, FiniteSets, TLC

VARIABLES
    handle,      \* "none": the caller holds no object; "held": it holds one it may call
    retained,    \* the caller keeps the object of a constructor call that raised
    name,        \* self._service_name
    timeoutv,    \* self._timeout, as __init__ sets it
    result,      \* self.result
    last,        \* the most recent public call: its kind, outcome and external invocations
    lastStatus   \* the stderr recorded by the most recent `systemctl status` invocation, if any

vars == <<handle, retained, name, timeoutv, result, last, lastStatus>>

----------------------------------------------------------------------------
(* Bounds of the model *)

\* number of distinct process ids the status text can show
MaxPids == 2

----------------------------------------------------------------------------
(* Constants of the program *)

TIMEOUT == 10

ExitCode_ERROR == 5

\* DMsg.NOT_FOUND = "could not be found"
NOT_FOUND == <<"could", "not", "be", "found">>

\* DMsg.TIMEOUT = "systemctl timed out"
TIMEOUT_MSG == <<"systemctl", "timed", "out">>

STATUS == "status"

Toggles == {"enable", "disable"}

----------------------------------------------------------------------------
(* Python values *)

None == << >>

Some(v) == <<v>>

\* `not x` for an optional string: None and "" are falsy
Falsy(n) == n = None \/ n = Some("")

----------------------------------------------------------------------------
(* The universe of external outputs *)

Names == {"nginx", "sshd"}

\* what a caller may pass as service_name: absent, empty, or a unit name
NameArgs == {None, Some("")} \cup {Some(n) : n \in Names}

RECURSIVE DecimalDigits(_)
\* the decimal text of a positive integer, as systemctl prints a pid
DecimalDigits(n) ==
    IF n < 10 THEN <<n>> ELSE Append(DecimalDigits(n \div 10), n % 10)

PidValues == {9 * i : i \in 1..MaxPids}

Line(k, v, d) == [k |-> k, v |-> v, d |-> d]

LoadedParts ==
    { << >>,
      <<Line("Loaded", "enabled", << >>)>>,
      <<Line("Loaded", "disabled", << >>)>> }

ActiveParts ==
    { << >>,
      <<Line("Active", "running", << >>)>>,
      <<Line("Active", "dead", << >>)>>,
      <<Line("Active", "dead", << >>), Line("Active", "running", << >>)>> }

MainPidParts ==
    { << >>, <<Line("MainPID", "exited", DecimalDigits(9))>> }
    \cup { <<Line("MainPID", "process", DecimalDigits(p))>> : p \in PidValues }

\* the status texts: a Loaded line, Active lines and a Main PID line, each optional
StatusTexts ==
    { l \o a \o m : l \in LoadedParts, a \in ActiveParts, m \in MainPidParts }

Outcome(kind, out, err, rc) == [kind |-> kind, stdout |-> out, stderr |-> err, rc |-> rc]

\* subprocess.run raising TimeoutExpired, or any other exception (str(e) is the text)
Failures ==
    { Outcome("timeout", << >>, << >>, 0),
      Outcome("error", << >>, <<"No", "such", "file">>, 0) }

\* the status texts a stderr without DMsg.NOT_FOUND is paired with
PlainTexts ==
    { << >>,
      <<Line("Loaded", "enabled", << >>), Line("Active", "running", << >>),
        Line("MainPID", "process", DecimalDigits(9))>> }

\* what one `systemctl status <name>` invocation can do
StatusOutcomes ==
    { Outcome("ok", o, << >>, 0) : o \in StatusTexts }
    \cup { Outcome("ok", o, <<"Unit">> \o NOT_FOUND, 4) : o \in StatusTexts }
    \cup { Outcome("ok", o, <<"could", "not", "found">>, 1) : o \in PlainTexts }
    \cup Failures

\* what one `sudo systemctl <subcommand> <name>` invocation can do
CommandOutcomes ==
    { Outcome("ok", << >>, << >>, 0),
      Outcome("ok", <<Line("Other", "text", << >>)>>, <<"Failed">> \o NOT_FOUND, 1) }
    \cup Failures

----------------------------------------------------------------------------
(* String and regular-expression helpers *)

\* Python's `needle in hay` on word sequences
Contains(hay, needle) ==
    \E i \in 0..(Len(hay) - Len(needle)) :
        \A j \in 1..Len(needle) : hay[i + j] = needle[j]

\* re.search(r"^\s*Active:\s+active \(running\).*", stdout, re.MULTILINE)
MatchRunning(stdout) ==
    \E i \in 1..Len(stdout) : stdout[i].k = "Active" /\ stdout[i].v = "running"

\* re.search(r"^\s*Main PID:.*\(code=exited\).*", stdout, re.MULTILINE)
MatchExited(stdout) ==
    \E i \in 1..Len(stdout) : stdout[i].k = "MainPID" /\ stdout[i].v = "exited"

\* re.search(r"^\s*Active:\s+inactive \(dead\).*", stdout, re.MULTILINE)
MatchDead(stdout) ==
    \E i \in 1..Len(stdout) : stdout[i].k = "Active" /\ stdout[i].v = "dead"

\* re.search(r"Loaded: .*; enabled;", stdout)
MatchEnabled(stdout) ==
    \E i \in 1..Len(stdout) : stdout[i].k = "Loaded" /\ stdout[i].v = "enabled"

\* re.search(r"Loaded: .*; disabled;", stdout)
MatchDisabled(stdout) ==
    \E i \in 1..Len(stdout) : stdout[i].k = "Loaded" /\ stdout[i].v = "disabled"

\* re.search(r"^\s*Main PID:\s+(\d+)", stdout, re.MULTILINE): group(1) of the
\* first matching line, or None
PidMatch(stdout) ==
    LET hits == { i \in 1..Len(stdout) : stdout[i].k = "MainPID" /\ stdout[i].d # << >> }
    IN  IF hits = {} THEN None
        ELSE Some(stdout[CHOOSE i \in hits : \A j \in hits : i <= j].d)

RECURSIVE int(_)
\* int(text) for a string of decimal digits
int(ds) ==
    IF ds = << >> THEN 0
    ELSE 10 * int(SubSeq(ds, 1, Len(ds) - 1)) + ds[Len(ds)]

----------------------------------------------------------------------------
(* The class *)

\* self.result as __init__ builds it
InitResult ==
    [active |-> None, pid |-> None, enabled |-> None, stdout |-> << >>, stderr |-> << >>]

\* _run_systemctl, the try/except and the two stores: what one external
\* invocation with outcome o leaves in the raw streams
run_systemctl(res, o) ==
    IF o.kind = "timeout"
    THEN [res EXCEPT !.stdout = << >>, !.stderr = TIMEOUT_MSG]
    ELSE IF o.kind = "error"
    THEN [res EXCEPT !.stdout = << >>, !.stderr = o.stderr]
    ELSE [res EXCEPT !.stdout = o.stdout, !.stderr = o.stderr]

\* the value _run_systemctl returns
returncode(o) == IF o.kind = "ok" THEN o.rc ELSE ExitCode_ERROR

ParseActive_deadFirst(stdout, old) ==
    IF MatchDead(stdout) THEN Some(FALSE)
    ELSE IF MatchExited(stdout) THEN Some(FALSE)
    ELSE IF MatchRunning(stdout) THEN Some(TRUE)
    ELSE old

\* _update_status, "Check for active state"
ParseActive(stdout, old) ==
    IF MatchRunning(stdout) THEN Some(TRUE)
    ELSE IF MatchExited(stdout) THEN Some(FALSE)
    ELSE IF MatchDead(stdout) THEN Some(FALSE)
    ELSE old

\* _update_status, "Check for enabled state"
ParseEnabled(stdout, old) ==
    IF MatchEnabled(stdout) THEN Some(TRUE)
    ELSE IF MatchDisabled(stdout) THEN Some(FALSE)
    ELSE old

\* _update_status, "Get PID"; active is the value just stored by ParseActive
ParsePid(stdout, active, old) ==
    IF PidMatch(stdout) # None /\ active = Some(TRUE)
    THEN Some(int(PidMatch(stdout)[1]))
    ELSE old

NotFound_exact(stderr) == stderr = NOT_FOUND

\* _update_status, the short circuit on DMsg.NOT_FOUND
NotFound(stderr) == Contains(stderr, NOT_FOUND)

\* _update_status after its name check, with o the outcome of the status invocation
update_status(res, o) ==
    LET r == run_systemctl(res, o)
        a == ParseActive(r.stdout, r.active)
    IN  IF NotFound(r.stderr)
        THEN [r EXCEPT !.active = None, !.pid = None, !.enabled = None]
        ELSE [r EXCEPT !.active = a,
                       !.enabled = ParseEnabled(r.stdout, r.enabled),
                       !.pid = ParsePid(r.stdout, a, r.pid)]

\* the accessors
enabled == result.enabled

pid == result.pid

stdout == result.stdout

stderr == result.stderr

installed == stderr = << >>

----------------------------------------------------------------------------
(* Bookkeeping of the calls *)

\* one external invocation: whether it was the status query, and how it ended
Call(arg, o) == [status |-> arg = STATUS, kind |-> o.kind]

\* the call returned; ret is what it returned where that is not a cached field
Returned(op, arg, ret, calls) ==
    [op |-> op, arg |-> arg, raised |-> FALSE, ret |-> ret, calls |-> calls]

\* raise ValueError(DMsg.NO_SERVICE_NAME)
Raised(op, arg, calls) ==
    [op |-> op, arg |-> arg, raised |-> TRUE, ret |-> None, calls |-> calls]

\* the caller holds an object: a constructor returned it, or raised and the
\* caller kept the object it was building
Usable == handle = "held"

\* the kind of a privileged subcommand
OpOf(arg) == IF arg \in Toggles THEN "toggle" ELSE "command"

----------------------------------------------------------------------------
(* The operations *)

NameMissing_isNone(n) == n = None

\* start/stop/restart/enable/disable: `if not self._service_name: raise`
NameMissing(n) == Falsy(n)

StatusNameMissing_isNone(n) == n = None

\* _update_status: `if not self._service_name: raise`
StatusNameMissing(n) == Falsy(n)

\* service_name: `if service_name:`
NameGiven(n) == ~Falsy(n)

NameChanged_always(n, old) == TRUE

\* service_name: `if service_name != old_service_name:`
NameChanged(n, old) == n # old

reloads_never(arg, o) == FALSE

reloads_always(arg, o) == arg \in Toggles

\* _run_systemctl: the early returns of the except clauses, then
\* `if arg == ENABLE or arg == DISABLE: self._update_status()`
reloads(arg, o) == o.kind = "ok" /\ arg \in Toggles

\* a call of self._update_status() on record res, made by operation op after the
\* invocations in calls; the name it checks is the one the operation has stored
UpdateStatusCall(res, op, arg, ret, calls) ==
    IF StatusNameMissing(name')
    THEN /\ result' = res
         /\ last' = Raised(op, arg, calls)
         /\ UNCHANGED lastStatus
    ELSE \E s \in StatusOutcomes :
         /\ result' = update_status(res, s)
         /\ last' = Returned(op, arg, ret, Append(calls, Call(STATUS, s)))
         /\ lastStatus' = Some(result'.stderr)

\* SystemCtl(service_name)
Construct(n) ==
    /\ handle = "none"
    /\ name' = n
    /\ timeoutv' = TIMEOUT
    /\ UNCHANGED retained
    /\ handle' = IF StatusNameMissing(n) /\ ~retained THEN "none" ELSE "held"
    /\ UpdateStatusCall(InitResult, "construct", n, None, << >>)

\* running()
Running ==
    /\ Usable
    /\ UNCHANGED <<handle, retained, name, timeoutv>>
    /\ UpdateStatusCall(result, "running", None, None, << >>)

\* service_name(service_name=None)
ServiceName(n) ==
    /\ Usable
    /\ UNCHANGED <<handle, retained, timeoutv>>
    /\ name' = IF NameGiven(n) THEN n ELSE name
    /\ IF NameGiven(n) /\ NameChanged(n, name)
       THEN UpdateStatusCall(result, "service_name", n, name', << >>)
       ELSE /\ last' = Returned("service_name", n, name', << >>)
            /\ UNCHANGED <<result, lastStatus>>

\* start(), stop(), restart(), enable(), disable(): the name check, then
\* _run_systemctl(arg)
Subcommand(arg) ==
    /\ Usable
    /\ UNCHANGED <<handle, retained, name, timeoutv>>
    /\ IF NameMissing(name)
       THEN /\ last' = Raised(OpOf(arg), None, << >>)
            /\ UNCHANGED <<result, lastStatus>>
       ELSE \E o \in CommandOutcomes :
            IF reloads(arg, o)
            THEN UpdateStatusCall(run_systemctl(result, o), OpOf(arg), None,
                                  Some(returncode(o)), <<Call(arg, o)>>)
            ELSE /\ result' = run_systemctl(result, o)
                 /\ last' = Returned(OpOf(arg), None, Some(returncode(o)), <<Call(arg, o)>>)
                 /\ UNCHANGED lastStatus

Start == Subcommand("start")

Stop == Subcommand("stop")

Restart == Subcommand("restart")

Enable == Subcommand("enable")

Disable == Subcommand("disable")

----------------------------------------------------------------------------
(* Specifications *)

NoCall == [op |-> "none", arg |-> None, raised |-> FALSE, ret |-> None, calls |-> << >>]

InitFields ==
    /\ handle = "none"
    /\ name = None
    /\ timeoutv = TIMEOUT
    /\ result = InitResult
    /\ last = NoCall
    /\ lastStatus = None

\* a caller that only ever uses objects its constructor call returned
Init == InitFields /\ retained = FALSE

\* a caller that keeps the object of a constructor call that raised
InitDeferred == InitFields /\ retained = TRUE

Next ==
    \/ \E n \in NameArgs : Construct(n)
    \/ Running
    \/ \E n \in NameArgs : ServiceName(n)
    \/ Start
    \/ Stop
    \/ Restart
    \/ Enable
    \/ Disable

Spec == Init /\ [][Next]_vars

SpecDeferred == InitDeferred /\ [][Next]_vars

TypeOK ==
    /\ handle \in {"none", "held"}
    /\ name \in NameArgs
    /\ result.active \in {None, Some(TRUE), Some(FALSE)}
    /\ result.enabled \in {None, Some(TRUE), Some(FALSE)}
    /\ result.pid \in {None} \cup {Some(p) : p \in PidValues}

----------------------------------------------------------------------------
(* Properties *)

\* the external invocations of the most recent call
calls == last.calls

\* the most recent call ended with a status query, so the record is what that
\* query and its parse left
Refreshed == calls # << >> /\ calls[Len(calls)].status

\* the most recent call was start(), stop(), restart(), enable() or disable()
Mutating == last.op \in {"command", "toggle"}

\* C1: in every reachable state of a handle, the cached pid is present only
\* when the cached active field is true.
C1_PidOnlyWhenActive ==
    handle = "held" => (pid # None => result.active = Some(TRUE))

C3_TimeoutYieldsError ==
    (Mutating /\ \E i \in 1..Len(calls) : calls[i].kind = "timeout") =>
        /\ last.ret = Some(ExitCode_ERROR)
        /\ stdout = << >>
        /\ stderr = TIMEOUT_MSG

\* C4: installed() is true iff the stderr captured by the most recent status
\* query is empty.
C4_InstalledIffStatusStderrEmpty ==
    handle = "held" => (installed <=> lastStatus = Some(<< >>))

\* C5: every call of a public operation performs at most one external invocation.
C5_AtMostOneInvocation ==
    Len(calls) <= 1

\* C5 as amended: construct, service_name(), running(), start(), stop() and
\* restart() perform at most one external invocation; enable() and disable()
\* perform at most two, the subcommand and then one status query; an invocation
\* that failed or timed out is the last one of its call.
C5_AtMostOneExceptToggle ==
    /\ last.op # "toggle" => Len(calls) <= 1
    /\ last.op = "toggle" =>
         /\ Len(calls) <= 2
         /\ Len(calls) = 2 => (~calls[1].status /\ calls[2].status)
    /\ \A i \in 1..Len(calls) : calls[i].kind # "ok" => i = Len(calls)

C5_Witness ==
    /\ last.op = "toggle"
    /\ Len(calls) = 2
    /\ calls[2].kind = "timeout"

\* C6: whenever a status refresh captures a stderr containing "could not be
\* found", active, enabled and pid are all unknown afterwards, whatever the
\* stdout and whatever was cached before.
C6_NotFoundClears ==
    (Refreshed /\ calls[Len(calls)].kind = "ok" /\ Contains(stderr, NOT_FOUND)) =>
        /\ result.active = None
        /\ enabled = None
        /\ pid = None

C6_Witness ==
    /\ last.op = "running"
    /\ Refreshed
    /\ Contains(stderr, NOT_FOUND)
    /\ MatchRunning(stdout) /\ MatchEnabled(stdout) /\ PidMatch(stdout) # None
    /\ result.active = None /\ enabled = None /\ pid = None

\* C7: a mutating call made while no service name is set raises the
\* configuration error, performs no external invocation and leaves the status
\* record unchanged.
C7_NoNameRaises ==
    [][ (Mutating' /\ Falsy(name)) =>
          /\ last'.raised
          /\ calls' = << >>
          /\ result' = result
          /\ name' = name ]_vars

C7_Witness ==
    /\ handle = "held"
    /\ Mutating
    /\ Falsy(name)
    /\ last.raised
    /\ calls = << >>

\* C8: service_name(n) with n the current name, or empty, or absent, performs
\* no external invocation, leaves name, timeout and the five status fields
\* unchanged and returns the current name; with a different non-empty name it
\* stores the name and performs exactly one status query.
C8_ServiceNameNoOp ==
    [][ last'.op = "service_name" =>
          IF last'.arg = None \/ last'.arg = Some("") \/ last'.arg = name
          THEN /\ calls' = << >>
               /\ name' = name
               /\ timeoutv' = timeoutv
               /\ result' = result
               /\ last'.ret = name
               /\ ~last'.raised
          ELSE /\ name' = last'.arg
               /\ Len(calls') = 1
               /\ calls'[1].status
               /\ last'.ret = last'.arg ]_vars

C8_Witness ==
    /\ last.op = "service_name"
    /\ last.arg = name
    /\ calls = << >>
    /\ result.active = Some(TRUE)

\* C9: when the status query of running() returns a stdout with an
\* "Active: active (running)" line and a "Main PID: <N>" line, running() returns
\* true and pid() is N.
C9_RunningText ==
    (/\ last.op = "running"
     /\ Refreshed /\ calls[1].kind = "ok"
     /\ MatchRunning(stdout)
     /\ PidMatch(stdout) # None) =>
        /\ result.active = Some(TRUE)
        /\ \E p \in PidValues : PidMatch(stdout) = Some(DecimalDigits(p)) /\ pid = Some(p)

\* C9 as amended: the same, for a status query whose stderr does not contain
\* "could not be found".
C9_RunningTextFound ==
    (/\ last.op = "running"
     /\ Refreshed /\ calls[1].kind = "ok"
     /\ ~Contains(stderr, NOT_FOUND)
     /\ MatchRunning(stdout)
     /\ PidMatch(stdout) # None) =>
        /\ result.active = Some(TRUE)
        /\ \E p \in PidValues : PidMatch(stdout) = Some(DecimalDigits(p)) /\ pid = Some(p)

C9_Witness ==
    /\ last.op = "running"
    /\ Refreshed /\ calls[1].kind = "ok"
    /\ stderr = << >>
    /\ MatchRunning(stdout) /\ MatchDead(stdout)
    /\ PidMatch(stdout) = Some(DecimalDigits(18))
    /\ result.active = Some(TRUE)
    /\ pid = Some(18)

\* C10: a constructor call with an absent or empty name raises before any
\* external invocation and yields no handle; a handle always has a non-empty
\* name, and none of its operations raises the configuration error.
C10_HandleHasName ==
    /\ (last.op = "construct" /\ Falsy(last.arg)) =>
           (last.raised /\ calls = << >> /\ handle = "none")
    /\ handle = "held" => (~Falsy(name) /\ ~last.raised)

C10_Witness ==
    /\ handle = "held"
    /\ last.op = "service_name"
    /\ last.arg = Some("")
    /\ ~Falsy(name)

====
